---- MODULE Spec2Model ----
(***************************************************************************)
(* Model of streamlit_app.py: a single-session image labelling form.       *)
(*                                                                         *)
(* The session state is st.session_state (current_image_index,             *)
(* annotations, images_data) together with the values of the keyed         *)
(* widgets.  One script execution of main() is the operator ScriptRun;     *)
(* each user interaction changes one widget value (or presses one button)  *)
(* and then executes the script once.  A button handler that ends in       *)
(* st.rerun() leaves pc = "run", and the only step possible then is the    *)
(* next script execution.  A session is any sequence of at most            *)
(* MaxInteractions user interactions.                                      *)
(*                                                                         *)
(* Framework behaviour the script relies on (keyed widgets):               *)
(*  - a widget whose key is already in the session returns its stored      *)
(*    value, its value= argument is used only when the key is new;         *)
(*  - the state of a widget that a script execution does not render is     *)
(*    dropped; every widget key of the script ends in the image index, so  *)
(*    the widget values of a position are dropped when it is left;         *)
(*  - the browser sends no event for a widget it rendered disabled;        *)
(*  - a number input only commits values within [min_value, max_value].    *)
(***************************************************************************)
EXTENDS Integers, Sequences, FiniteSets, TLC

\* ------------------------------------------------------------ bounds

\* Number of rows of post_img.csv.
NumImages == 3

\* The user interacts with the page at most MaxInteractions times.
MaxInteractions == 6

\* The user only ever toggles the first NumToggled checkboxes of LABELS.
NumToggled == 4

\* ------------------------------------------------------- program constants

LABELS ==
    << "(a) Code", "(b) Run Time Error", "(c) Menus and Preferences",
       "(d) Dialog Box", "(e) Steps and Processes", "(f) Program Input",
       "(g) Desired Output", "(h) Program Output", "(i) CPU/GPU Performance",
       "(j) Algorithm/Concept Description" >>

NONE_OPTION == "None of the above labels can apply"

\* len(selected_labels) <= 3
MAX_LABELS == 3

\* Python's None (as a JSON value) and pandas' NaN / missing value.
None == "null"
NaN == "NaN"

\* ------------------------------------------------------------ helpers

Range(s) == { s[i] : i \in 1..Len(s) }

DigitChars == << "0", "1", "2", "3", "4", "5", "6", "7", "8", "9" >>

\* str(n) for a non-negative integer: its decimal digits.
RECURSIVE str(_)
str(n) ==
    IF n < 10 THEN << DigitChars[n + 1] >>
    ELSE Append(str(n \div 10), DigitChars[(n % 10) + 1])

DigitValue(c) == CHOOSE d \in 0..9 : DigitChars[d + 1] = c

\* int(s) for a string of decimal digits.
RECURSIVE int(_)
int(s) ==
    IF Len(s) = 1 THEN DigitValue(s[1])
    ELSE 10 * int(SubSeq(s, 1, Len(s) - 1)) + DigitValue(s[Len(s)])

\* A Python dict is a sequence of [key, value] items in insertion order.
DictKeys(d) == { d[i].key : i \in 1..Len(d) }

\* d.get(k, default)
DictGet(d, k, default) ==
    IF k \in DictKeys(d)
    THEN d[CHOOSE i \in 1..Len(d) : d[i].key = k].value
    ELSE default

\* Variant of DictSet that rebuilds the dict around the written item.
DictSet_rebuild(d, k, v) == << [key |-> k, value |-> v] >>

\* d[k] = v : an existing key keeps its place, a new key goes last.
DictSet(d, k, v) ==
    IF k \in DictKeys(d)
    THEN [ i \in 1..Len(d) |-> IF d[i].key = k THEN [key |-> k, value |-> v] ELSE d[i] ]
    ELSE Append(d, [key |-> k, value |-> v])

\* ------------------------------------------------------------ dataset

\* The loaded dataframe (load_images_data): one row per image, each cell
\* with its pandas dtype; the title of every even row is missing.
images_data ==
    [ i \in 1..NumImages |->
        [ post_id |-> [dtype |-> "int64", val |-> 100 + i],
          title   |-> IF i % 2 = 0 THEN [dtype |-> "NaN", val |-> NaN]
                                   ELSE [dtype |-> "object", val |-> "title"],
          link    |-> [dtype |-> "object", val |-> "link"] ] ]

total_images == Len(images_data)

\* ------------------------------------------------------------ DataLoader

\* A path is the sequence of its components; os.path.join appends.
SCRIPT_DIR == << "app" >>

DATA_DIR == SCRIPT_DIR \o << "data" >>

\* get_image_path returns None when nothing is found.
NoPath == << >>

\* The file names the dataset may refer to.
Filenames == { "a.png", "b.png" }

\* Variant of possible_paths that looks into the images directory first.
possible_paths_images_first(name) ==
    << DATA_DIR \o << "images", name >>,
       DATA_DIR \o << name >>,
       SCRIPT_DIR \o << "images", name >>,
       SCRIPT_DIR \o << name >> >>

\* possible_paths, in the order of the list.
possible_paths(name) ==
    << DATA_DIR \o << name >>,
       DATA_DIR \o << "images", name >>,
       SCRIPT_DIR \o << "images", name >>,
       SCRIPT_DIR \o << name >> >>

\* for path in possible_paths: if os.path.exists(path): return path
RECURSIVE first_existing(_, _)
first_existing(paths, existing) ==
    IF paths = << >> THEN NoPath
    ELSE IF Head(paths) \in existing THEN Head(paths)
    ELSE first_existing(Tail(paths), existing)

\* DataLoader.get_image_path
get_image_path(name, existing) ==
    IF name = NaN \/ name = "" THEN NoPath
    ELSE first_existing(possible_paths(name), existing)

\* ------------------------------------------------------------ state

VARIABLES
    current_image_index,  \* st.session_state.current_image_index
    annotations,          \* st.session_state.annotations (dict, insertion order)
    widget_index,         \* the image index in the keys of the stored widget values, -1: none
    label_checked,        \* the labels whose checkbox  label_<label>_<index>  holds True
    none_checked,         \* value of checkbox  none_option_<index>
    nav_input,            \* value of number input  nav_input_<index>
    rendered,             \* what the last script execution put on the page
    interactions,         \* the number of user interactions so far
    pc,                   \* "run": a script execution is due, "idle": waiting for the user
    files,                \* the paths that exist on disk (image resolution)
    image_filename,       \* argument of DataLoader.get_image_path
    image_path            \* its result

session_vars ==
    << current_image_index, annotations, widget_index, label_checked,
       none_checked, nav_input, rendered, interactions, pc >>

resolver_vars == << files, image_filename, image_path >>

vars == << session_vars, resolver_vars >>

\* ------------------------------------------------------------ main()

\* st.session_state.annotations.get(str(current_image_index), [])
current_annotations == DictGet(annotations, str(current_image_index), << >>)

\* none_selected = NONE_OPTION in current_annotations
none_selected == NONE_OPTION \in Range(current_annotations)

\* The value= argument of the checkbox of label l, used when its key is new.
checkbox_default(l) == l \in Range(current_annotations) /\ ~none_selected

\* The loop over LABELS: the checked labels, in catalog order.
selected_labels(checked) == SelectSeq(LABELS, LAMBDA l : l \in checked)

\* Variant of final_selection that adds the sentinel to the checked labels.
final_selection_merged(nchk, selected) ==
    IF nchk THEN Append(selected, NONE_OPTION)
    ELSE IF Len(selected) > 0 THEN selected
    ELSE << >>

\* "Determine final selection"
final_selection(nchk, selected) ==
    IF nchk THEN << NONE_OPTION >>
    ELSE IF Len(selected) > 0 THEN selected
    ELSE << >>

selection_valid(nchk, selected) ==
    IF nchk THEN TRUE
    ELSE IF Len(selected) > 0 THEN Len(selected) <= MAX_LABELS
    ELSE FALSE

\* "Validate selection": the message put on the page.
validation_message(selected, valid) ==
    IF Len(selected) > MAX_LABELS THEN "error"
    ELSE IF ~valid THEN "warning"
    ELSE "none"

\* Variant of prev_disabled without the validity gate.
prev_disabled_ungated(idx, valid) == (idx = 0)

prev_disabled(idx, valid) == (idx = 0) \/ ~valid

\* Variant of next_disabled with the bound off by one.
next_disabled_off_by_one(idx, valid) == (idx >= total_images) \/ ~valid

next_disabled(idx, valid) == (idx >= total_images - 1) \/ ~valid

\* Variant of go_disabled of a permissive jump.
go_disabled_permissive(valid) == FALSE

go_disabled(valid) == ~valid

\* The projection of one row on post_id, title, link as native values.
img_info(img_row) ==
    [ col \in {"post_id", "title", "link"} |->
        IF img_row[col].dtype = "NaN" THEN None ELSE img_row[col].val ]

\* The body of the loop: the entry for one item of the dict.
annotation_entry(img_index, labels) ==
    LET position == int(img_index)
    IN  [ image_index     |-> position,
          image_info      |-> img_info(images_data[position + 1]),
          selected_labels |-> labels ]

\* Variant of save_annotations_to_json that leaves out empty selections.
save_annotations_skipping_empty(ann) ==
    LET kept == SelectSeq(ann, LAMBDA item : Len(item.value) > 0)
    IN  [ i \in 1..Len(kept) |-> annotation_entry(kept[i].key, kept[i].value) ]

\* Variant of save_annotations_to_json that sorts the entries by position.
save_annotations_sorted(ann) ==
    LET rank(i) == Cardinality({ j \in 1..Len(ann) : int(ann[j].key) <= int(ann[i].key) })
        at(r)   == ann[CHOOSE i \in 1..Len(ann) : rank(i) = r]
    IN  [ r \in 1..Len(ann) |-> annotation_entry(at(r).key, at(r).value) ]

\* save_annotations_to_json: one entry per item of the dict, in dict order.
save_annotations_to_json(ann) ==
    [ i \in 1..Len(ann) |-> annotation_entry(ann[i].key, ann[i].value) ]

\* Line 352: the document every complete execution binds to the download
\* button, a function of the session state alone.
annotations_json == save_annotations_to_json(annotations)

\* One execution of the script.  lc, nc, nv are the widget values held for
\* the keys of widget_index; clicked is the button pressed ("" for none).
ScriptRun(lc, nc, nv, clicked) ==
    LET idx      == current_image_index
        fresh    == widget_index # idx
        checked  == IF fresh
                    THEN { l \in Range(LABELS) : checkbox_default(l) }
                    ELSE lc
        selected == selected_labels(checked)
        nchk     == IF fresh THEN none_selected ELSE nc
        final    == final_selection(nchk, selected)
        valid    == selection_valid(nchk, selected)
        target   == IF fresh THEN idx + 1 ELSE nv
        stored   == DictSet(annotations, str(idx), final)
    IN  /\ annotations' = stored
        /\ widget_index' = idx
        /\ label_checked' = checked
        /\ none_checked' = nchk
        /\ IF clicked = "prev"
           THEN /\ current_image_index' = idx - 1
                /\ pc' = "run"
                /\ UNCHANGED << nav_input, rendered >>
           ELSE IF clicked = "next"
           THEN /\ current_image_index' = idx + 1
                /\ pc' = "run"
                /\ UNCHANGED << nav_input, rendered >>
           ELSE IF clicked = "go"
           THEN /\ current_image_index' = target - 1
                /\ pc' = "run"
                /\ nav_input' = target
                /\ UNCHANGED rendered
           ELSE /\ UNCHANGED current_image_index
                /\ pc' = "idle"
                /\ nav_input' = target
                /\ rendered' =
                     [ label_disabled |-> none_selected,
                       none_disabled  |-> Len(selected) > 0,
                       message        |-> validation_message(selected, valid),
                       prev_disabled  |-> prev_disabled(idx, valid),
                       next_disabled  |-> next_disabled(idx, valid),
                       go_disabled    |-> go_disabled(valid) ]
        /\ UNCHANGED resolver_vars

\* ------------------------------------------------------------ steps

\* Module level, lines 40-46: the session before the first execution.
Init ==
    /\ current_image_index = 0
    /\ annotations = << >>
    /\ widget_index = -1
    /\ label_checked = {}
    /\ none_checked = FALSE
    /\ nav_input = 0
    /\ rendered = [ label_disabled |-> TRUE, none_disabled |-> TRUE,
                    message |-> "none", prev_disabled |-> TRUE,
                    next_disabled |-> TRUE, go_disabled |-> TRUE ]
    /\ interactions = 0
    /\ pc = "run"
    /\ files = {}
    /\ image_filename = NaN
    /\ image_path = NoPath

\* The first execution, and the one st.rerun() asks for.
Rerun ==
    /\ pc = "run"
    /\ UNCHANGED interactions
    /\ ScriptRun(label_checked, none_checked, nav_input, "")

\* The page is waiting and the user acts on it once more.
UserEvent ==
    /\ pc = "idle"
    /\ interactions < MaxInteractions
    /\ interactions' = interactions + 1

\* The user toggles the checkbox of label l.
ToggleLabel(l) ==
    /\ UserEvent
    /\ ~rendered.label_disabled
    /\ ScriptRun(IF l \in label_checked THEN label_checked \ {l}
                                        ELSE label_checked \cup {l},
                 none_checked, nav_input, "")

\* The user toggles the "None of the above" checkbox.
ToggleNone ==
    /\ UserEvent
    /\ ~rendered.none_disabled
    /\ ScriptRun(label_checked, ~none_checked, nav_input, "")

\* The user enters t in "Go to image:" (min_value=1, max_value=total_images).
SetNavInput(t) ==
    /\ UserEvent
    /\ t >= 1
    /\ t <= total_images
    /\ t # nav_input
    /\ ScriptRun(label_checked, none_checked, t, "")

Previous ==
    /\ UserEvent
    /\ ~rendered.prev_disabled
    /\ ScriptRun(label_checked, none_checked, nav_input, "prev")

NextImage ==
    /\ UserEvent
    /\ ~rendered.next_disabled
    /\ ScriptRun(label_checked, none_checked, nav_input, "next")

Go ==
    /\ UserEvent
    /\ ~rendered.go_disabled
    /\ ScriptRun(label_checked, none_checked, nav_input, "go")

\* The download button is enabled when annotations is not empty; pressing
\* it hands over annotations_json and executes the script again, which
\* stores the same selection once more.
Download ==
    /\ UserEvent
    /\ Len(annotations) > 0
    /\ ScriptRun(label_checked, none_checked, nav_input, "")

Next ==
    \/ Rerun
    \/ \E i \in 1..NumToggled : ToggleLabel(LABELS[i])
    \/ ToggleNone
    \/ \E t \in 0..(total_images + 1) : SetNavInput(t)
    \/ Previous
    \/ NextImage
    \/ Go
    \/ Download

Spec == Init /\ [][Next]_vars

\* ------------------------------------------------------------ image resolution alone

\* Every file system over the candidate paths, every image reference.
ResolveInit ==
    /\ current_image_index = 0
    /\ annotations = << >>
    /\ widget_index = -1
    /\ label_checked = {}
    /\ none_checked = FALSE
    /\ nav_input = 0
    /\ rendered = [ label_disabled |-> TRUE, none_disabled |-> TRUE,
                    message |-> "none", prev_disabled |-> TRUE,
                    next_disabled |-> TRUE, go_disabled |-> TRUE ]
    /\ interactions = 0
    /\ pc = "call"
    /\ files \in SUBSET UNION { Range(possible_paths(n)) : n \in Filenames }
    /\ image_filename \in Filenames \cup { NaN, "" }
    /\ image_path = NoPath

\* loader.get_image_path(image_identifier_str)
GetImagePath ==
    /\ pc = "call"
    /\ image_path' = get_image_path(image_filename, files)
    /\ pc' = "return"
    /\ UNCHANGED << current_image_index, annotations, widget_index, label_checked,
                    none_checked, nav_input, rendered, interactions,
                    files, image_filename >>

ResolveNext == GetImagePath

ResolveSpec == ResolveInit /\ [][ResolveNext]_vars

\* ------------------------------------------------------------ properties

\* The real catalog labels of a selection.
RealLabels(sel) == { l \in Range(sel) : l \in Range(LABELS) }

\* A valid Selection: the sentinel alone, or 1 to 3 distinct real labels.
IsValidSelection(sel) ==
    \/ sel = << NONE_OPTION >>
    \/ /\ Len(sel) >= 1
       /\ Len(sel) <= 3
       /\ Range(sel) \subseteq Range(LABELS)
       /\ Cardinality(Range(sel)) = Len(sel)

\* The positions an export document lists, in document order.
ExportOrder(doc) == [ i \in 1..Len(doc) |-> doc[i].image_index ]

\* C1: every Selection stored in the AnnotationMap, the one of the displayed
\* position included, contains at most 3 real catalog labels.
C1_AtMostThreeStored ==
    \A i \in 1..Len(annotations) : Cardinality(RealLabels(annotations[i].value)) <= 3

\* C2: an interaction that supplies more than 3 real labels (sentinel not
\* checked) leaves the Selection stored for the position as it was before
\* (same entry, or still no entry) and surfaces a validation error.
C2_OverLimitRejected ==
    [][ ( /\ pc' = "idle"
          /\ Cardinality(label_checked') > 3
          /\ ~none_checked' )
        => /\ (str(current_image_index) \in DictKeys(annotations'))
                = (str(current_image_index) \in DictKeys(annotations))
           /\ DictGet(annotations', str(current_image_index), << >>)
                = DictGet(annotations, str(current_image_index), << >>)
           /\ rendered'.message = "error" ]_vars

\* C3: every stored Selection is exactly the sentinel alone or a
\* duplicate-free sequence of real labels (possibly empty); the sentinel is
\* never stored together with a real label.
C3_SentinelExclusive ==
    \A i \in 1..Len(annotations) :
        LET sel == annotations[i].value
        IN  \/ sel = << NONE_OPTION >>
            \/ /\ Range(sel) \subseteq Range(LABELS)
               /\ Cardinality(Range(sel)) = Len(sel)

\* C3 witness: a label checkbox and the sentinel checkbox are both checked
\* and the sentinel alone is stored for the displayed position.
C3_Witness ==
    /\ pc = "idle"
    /\ label_checked # {}
    /\ none_checked
    /\ current_annotations = << NONE_OPTION >>

\* C4: the position changes only in a cycle whose computed Selection for the
\* position being left is valid; after a cycle that computed an empty or
\* over-limit Selection all three navigation controls are disabled and a
\* warning or error is on the page.
C4_StrictGating ==
    [][ /\ (current_image_index' # current_image_index)
            => IsValidSelection(DictGet(annotations', str(current_image_index), << >>))
        /\ ( /\ pc' = "idle"
             /\ ~IsValidSelection(DictGet(annotations', str(current_image_index'), << >>)) )
            => /\ rendered'.message \in { "warning", "error" }
               /\ rendered'.prev_disabled
               /\ rendered'.next_disabled
               /\ rendered'.go_disabled ]_vars

\* C4 witness: position 1 was reached from position 0 with 2 labels
\* stored; nothing is selected at position 1 yet, so the warning is shown
\* and Previous, Next and Go are all disabled.
C4_Witness ==
    /\ pc = "idle"
    /\ current_image_index = 1
    /\ DictGet(annotations, str(0), << >>) = << LABELS[1], LABELS[2] >>
    /\ str(1) \in DictKeys(annotations)
    /\ current_annotations = << >>
    /\ rendered.message = "warning"
    /\ rendered.prev_disabled /\ rendered.next_disabled /\ rendered.go_disabled

\* C5: the position always satisfies 0 <= current < N, and the number
\* input that feeds jumpTo holds a target with 1 <= target <= N.
C5_PositionInRange ==
    /\ current_image_index >= 0
    /\ current_image_index < total_images
    /\ (pc = "idle" => nav_input >= 1 /\ nav_input <= total_images)

\* C5 witness: at the last position with a valid Selection, Next is
\* disabled although Previous and Go are not.
C5_Witness ==
    /\ pc = "idle"
    /\ current_image_index = total_images - 1
    /\ rendered.next_disabled
    /\ ~rendered.prev_disabled
    /\ ~rendered.go_disabled

\* C6: the export has exactly one entry for each position present in the
\* AnnotationMap and no other entry; an entry's image_index is the position
\* as an integer and its selected_labels is the Selection stored for it.
C6_ExportEntries ==
    LET doc == annotations_json
    IN  /\ \A p \in 0..(total_images - 1) :
              Cardinality({ i \in 1..Len(doc) : doc[i].image_index = p })
                = IF str(p) \in DictKeys(annotations) THEN 1 ELSE 0
        /\ \A i \in 1..Len(doc) :
              /\ doc[i].image_index \in 0..(total_images - 1)
              /\ str(doc[i].image_index) \in DictKeys(annotations)
              /\ doc[i].selected_labels
                   = DictGet(annotations, str(doc[i].image_index), << >>)

\* C6 witness: labels at position 0, the sentinel at position 2, position 1
\* never visited: two entries, the second the one-element sentinel list.
C6_Witness ==
    /\ pc = "idle"
    /\ DictKeys(annotations) = { str(0), str(2) }
    /\ DictGet(annotations, str(0), << >>) = << LABELS[1] >>
    /\ Len(annotations_json) = 2
    /\ annotations_json[2].image_index = 2
    /\ annotations_json[2].selected_labels = << NONE_OPTION >>

\* C7: the export lists the positions in the order of their first visit:
\* a step never reorders or drops the positions already listed, and the
\* only position it can add, at the end, is the one displayed; a displayed
\* position is always listed.
C7_ExportInVisitOrder ==
    [][ LET old == ExportOrder(save_annotations_to_json(annotations))
            new == ExportOrder(save_annotations_to_json(annotations'))
        IN  /\ \/ new = old
               \/ /\ new = Append(old, current_image_index)
                  /\ current_image_index \notin Range(old)
            /\ pc' = "idle" => current_image_index' \in Range(new) ]_vars

\* C7 witness: visited 0, jumped to 2, went back to 1: the export lists 0, 2, 1.
C7_Witness ==
    /\ pc = "idle"
    /\ ExportOrder(annotations_json) = << 0, 2, 1 >>

\* C8 as claimed: the result is the first existing candidate in the order
\* <data>/images, <data>, <script>/images, <script>.
C8_ClaimedPriority ==
    (pc = "return" /\ image_filename \in Filenames) =>
        LET order == << DATA_DIR \o << "images", image_filename >>,
                        DATA_DIR \o << image_filename >>,
                        SCRIPT_DIR \o << "images", image_filename >>,
                        SCRIPT_DIR \o << image_filename >> >>
        IN  \A i \in 1..4 :
                (order[i] \in files /\ \A j \in 1..(i - 1) : order[j] \notin files)
                    => image_path = order[i]

\* C8 amended: the result is the first existing candidate in the order
\* <data>, <data>/images, <script>/images, <script>; "no image" is returned
\* exactly when no candidate exists or the reference is missing or empty.
C8_Priority ==
    pc = "return" =>
        LET order == << DATA_DIR \o << image_filename >>,
                        DATA_DIR \o << "images", image_filename >>,
                        SCRIPT_DIR \o << "images", image_filename >>,
                        SCRIPT_DIR \o << image_filename >> >>
            usable == image_filename # NaN /\ image_filename # ""
        IN  /\ usable =>
                \A i \in 1..4 :
                    (order[i] \in files /\ \A j \in 1..(i - 1) : order[j] \notin files)
                        => image_path = order[i]
            /\ (image_path = NoPath)
                 = (~usable \/ \A i \in 1..4 : order[i] \notin files)

\* C8 witness: the file exists in <data> and in <data>/images, and the
\* <data> path is returned.
C8_Witness ==
    /\ pc = "return"
    /\ image_filename = "a.png"
    /\ DATA_DIR \o << "a.png" >> \in files
    /\ DATA_DIR \o << "images", "a.png" >> \in files
    /\ image_path = DATA_DIR \o << "a.png" >>

\* C9: a cycle writes at most the entry of the displayed position: no key
\* is removed, the entries of the other positions keep their value, the
\* only key it can add is the displayed one; label toggles and export
\* leave the position unchanged.
C9_Frame ==
    [][ /\ DictKeys(annotations) \subseteq DictKeys(annotations')
        /\ DictKeys(annotations') \subseteq DictKeys(annotations) \cup { str(current_image_index) }
        /\ \A k \in DictKeys(annotations) :
              k # str(current_image_index)
                => DictGet(annotations', k, << >>) = DictGet(annotations, k, << >>)
        /\ ( \/ \E i \in 1..NumToggled : ToggleLabel(LABELS[i])
             \/ ToggleNone
             \/ Download )
            => current_image_index' = current_image_index ]_vars

\* C9 witness: two positions hold different non-empty Selections, the
\* second written while the first was kept.
C9_Witness ==
    /\ pc = "idle"
    /\ current_image_index = 1
    /\ DictGet(annotations, str(0), << >>) = << LABELS[1], LABELS[2] >>
    /\ current_annotations = << NONE_OPTION >>

\* C10: every position in the AnnotationMap other than the displayed one
\* holds a valid Selection.
C10_OthersValid ==
    \A i \in 1..Len(annotations) :
        annotations[i].key # str(current_image_index)
            => IsValidSelection(annotations[i].value)

\* C10 witness: the displayed position holds an over-limit Selection while
\* the position left before holds the sentinel.
C10_Witness ==
    /\ pc = "idle"
    /\ current_image_index = 1
    /\ Cardinality(RealLabels(current_annotations)) > 3
    /\ DictGet(annotations, str(0), << >>) = << NONE_OPTION >>

====
